---------------------------- MODULE Spec2Model ----------------------------
(***************************************************************************)
(* A model of three independent client-side pieces of the suna frontend:   *)
(*                                                                         *)
(*   - maintenanceNoticeFlag.decide   (src/unnamed/part_000)               *)
(*   - AuthProvider                   (components/AuthProvider.tsx 25-116) *)
(*   - OllamaModelManager             (components/AuthProvider.tsx 169-473)*)
(*                                                                         *)
(* The pieces share no state, so each has a specification of its own       *)
(* (SpecFlag, SpecAuth, SpecPanel) in which the other two pieces rest in   *)
(* their initial state.                                                    *)
(***************************************************************************)
EXTENDS Integers, Sequences, FiniteSets, TLC

VARIABLES
    \* ---- maintenanceNoticeFlag.decide ----
    edgeConfig,     \* process.env.EDGE_CONFIG as the current evaluation read it
    decidePc,       \* "idle" | "getAll" (suspended at the await) | "done"
    getAllCalls,    \* calls of getAll made by the current evaluation
    fetched,        \* what the await of getAll produced in this evaluation
    completion,     \* how the evaluation completed: returned a value or threw
    \* ---- AuthProvider ----
    session,        \* useState<Session | null>(null)
    user,           \* useState<User | null>(null)
    isLoading,      \* useState(true)
    lifecycle,      \* "created" | "mounted" | "unmounted"
    closureIsLoading, \* the isLoading the subscribed callback closed over
    initPc,         \* getInitialSession: "idle" | "getSession" | "done"
    getSessionCalls, \* calls of supabase.auth.getSession
    signOutPc,      \* signOut: "idle" | "signOut" (suspended at the await)
    signOutCalled,  \* signOut has been called at least once
    lastNotified,   \* the newSession of the last notification the callback took, if any
    authStep,       \* what the last step of the provider did, as its collaborators saw it
    \* ---- OllamaModelManager ----
    models,         \* useState<OllamaModel[]>([])
    serverStatus,   \* useState<ServerStatus | null>(null)
    loading,        \* useState(false)
    isOpen,         \* useState(false)
    newModelName,   \* useState('')
    pullingModel,   \* useState<string | null>(null)
    deletingModel,  \* useState<string | null>(null)
    calls,          \* the async calls in flight, each suspended at an await
    panelStep,      \* what the last step of the panel did: request issued, call ended, callback
    \* ---- formatFileSize ----
    bytes,          \* the argument of the last call, in base-1024 digits
    formatted       \* the string the last call returned

flagVars == <<edgeConfig, decidePc, getAllCalls, fetched, completion>>

authVars == <<session, user, isLoading, lifecycle, closureIsLoading, initPc,
              getSessionCalls, signOutPc, signOutCalled, lastNotified,
              authStep>>

panelVars == <<models, serverStatus, loading, isOpen, newModelName, pullingModel,
               deletingModel, calls, panelStep>>

formatVars == <<bytes, formatted>>

vars == <<flagVars, authVars, panelVars, formatVars>>

(***************************************************************************)
(* JavaScript values as tagged records.                                    *)
(***************************************************************************)
Undefined == [t |-> "undefined", v |-> "undefined"]
Null      == [t |-> "null", v |-> "null"]
Bool(b)   == [t |-> "boolean", v |-> b]
Num(n)    == [t |-> "number", v |-> n]
Str(s)    == [t |-> "string", v |-> s]

\* ToBoolean: undefined, null, false, 0 and "" are falsy, everything else truthy.
Truthy(x) ==
    CASE x.t = "undefined" -> FALSE
      [] x.t = "null"      -> FALSE
      [] x.t = "boolean"   -> x.v
      [] x.t = "number"    -> x.v # 0
      [] x.t = "string"    -> x.v # ""

(***************************************************************************)
(* Date objects: a time value in milliseconds, or NaN (an Invalid Date).   *)
(***************************************************************************)
InvalidDate == [nan |-> TRUE, ms |-> 0]
DateOf(n)   == [nan |-> FALSE, ms |-> n]

\* Date.parse on the strings of the model: the ISO strings give their epoch
\* milliseconds, every other string (the empty one included) gives NaN.
DateParse(s) ==
    CASE s = "1970-01-01T00:00:01Z"     -> DateOf(1000)
      [] s = "1970-01-02T00:00:00.000Z" -> DateOf(86400000)
      [] OTHER                          -> InvalidDate

\* new Date(value): a string is parsed, any other value goes through ToNumber
\* (undefined -> NaN, null -> 0, false -> 0, true -> 1).
NewDate(x) ==
    CASE x.t = "string"    -> DateParse(x.v)
      [] x.t = "number"    -> DateOf(x.v)
      [] x.t = "undefined" -> InvalidDate
      [] x.t = "null"      -> DateOf(0)
      [] x.t = "boolean"   -> DateOf(IF x.v THEN 1 ELSE 0)

\* isNaN(date.getTime())
IsNaNTime(d) == d.nan

(***************************************************************************)
(* maintenanceNoticeFlag.decide                                            *)
(***************************************************************************)
\* The values process.env.EDGE_CONFIG takes: unset, empty, a connection string.
EnvValues == {Undefined, Str(""), Str("https://edge-config.vercel.com/ecfg_1")}

\* The values the config store holds under the enabled key (a missing key
\* reads as undefined).
EnabledValues ==
    {Undefined, Null, Bool(FALSE), Bool(TRUE), Num(0), Num(1), Str(""), Str("false")}

\* The values the config store holds under the start-time and end-time keys.
TimeValues ==
    {Undefined, Null, Str(""), Str("tomorrow at noon"),
     Str("1970-01-01T00:00:01Z"), Str("1970-01-02T00:00:00.000Z"), Num(5000)}

Flags == [enabled : EnabledValues, start : TimeValues, end : TimeValues]

\* What `await getAll([...])` produces: a rejection or the fetched values.
GetAllOutcomes == {[kind |-> "reject"]} \cup {[kind |-> "ok", flags |-> f] : f \in Flags}

NotFetched == [kind |-> "none"]

\* IMaintenanceNotice
Disabled == [enabled |-> FALSE]
Enabled(startTime, endTime) ==
    [enabled |-> TRUE, startTime |-> startTime, endTime |-> endTime]

\* Completion records of the async function.
Return(value) == [kind |-> "return", value |-> value]
Throw         == [kind |-> "throw"]
Running       == [kind |-> "running"]

\* A variant of EdgeConfigMissing that tests `=== undefined`.
EdgeConfigUndefined(env) == env = Undefined

\* `!process.env.EDGE_CONFIG`
EdgeConfigMissing(env) == ~Truthy(env)

\* A variant of NoticeDisabledInConfig that tests `=== false`.
NoticeDisabledStrictFalse(flags) == flags.enabled = Bool(FALSE)

\* `!flags['maintenance-notice_enabled']`
NoticeDisabledInConfig(flags) == ~Truthy(flags.enabled)

\* `isNaN(startTime.getTime()) || isNaN(endTime.getTime())`
InvalidTimes(startTime, endTime) == IsNaNTime(startTime) \/ IsNaNTime(endTime)

\* The body of the try block from the await of getAll on (lines 25-51).
TryAfterGetAll(outcome) ==
    IF outcome.kind = "reject" THEN Throw
    ELSE IF NoticeDisabledInConfig(outcome.flags) THEN Return(Disabled)
    ELSE LET startTime == NewDate(outcome.flags.start)
             endTime   == NewDate(outcome.flags.end)
         IN  IF InvalidTimes(startTime, endTime) THEN Throw
             ELSE Return(Enabled(startTime, endTime))

\* A variant of Catch that rethrows.
CatchRethrows(c) == c

\* The catch clause (lines 52-57): any throw of the try block becomes disabled.
Catch(c) == IF c.kind = "throw" THEN Return(Disabled) ELSE c

FlagInit ==
    /\ edgeConfig = Undefined
    /\ decidePc = "idle"
    /\ getAllCalls = 0
    /\ fetched = NotFetched
    /\ completion = Running

\* decide() is called, reads process.env.EDGE_CONFIG and runs to the first await
\* or to a return (lines 19-29).
DecideCall ==
    /\ decidePc \in {"idle", "done"}
    /\ fetched' = NotFetched
    /\ \E env \in EnvValues :
          /\ edgeConfig' = env
          /\ IF EdgeConfigMissing(env)
             THEN /\ decidePc' = "done"
                  /\ getAllCalls' = 0
                  /\ completion' = Catch(Return(Disabled))
             ELSE /\ decidePc' = "getAll"
                  /\ getAllCalls' = 1
                  /\ completion' = Running

\* The await of getAll settles and decide runs to completion (lines 25-58).
DecideResume ==
    /\ decidePc = "getAll"
    /\ \E outcome \in GetAllOutcomes :
          /\ fetched' = outcome
          /\ completion' = Catch(TryAfterGetAll(outcome))
    /\ decidePc' = "done"
    /\ UNCHANGED <<edgeConfig, getAllCalls>>

(***************************************************************************)
(* AuthProvider                                                            *)
(***************************************************************************)
NoSession == [kind |-> "null"]
NoUser    == [kind |-> "null"]
UndefinedUser == [kind |-> "undefined"]
User(id, created_at) == [kind |-> "user", id |-> id, created_at |-> created_at]
SessionOf(u) == [kind |-> "session", user |-> u]

Users == {User("u1", "2024-01-01T00:00:00Z"), User("u2", "2025-02-02T00:00:00Z")}

\* The sessions the auth client hands over; the callback and the initial fetch
\* both read `.user` through `?.`, so a session that carries no user is one of them.
Sessions == {SessionOf(u) : u \in Users} \cup {SessionOf(UndefinedUser)}
MaybeSessions == {NoSession} \cup Sessions

\* AuthChangeEvent: the four events the switch names and one that takes its default.
Events == {"SIGNED_IN", "SIGNED_OUT", "TOKEN_REFRESHED", "MFA_CHALLENGE_VERIFIED",
           "USER_UPDATED"}

\* What `await supabase.auth.getSession()` produces.
GetSessionOutcomes ==
    {[kind |-> "reject"]} \cup {[kind |-> "ok", session |-> s] : s \in MaybeSessions}

\* `s?.user`
OptUser(s) == IF s = NoSession THEN UndefinedUser ELSE s.user

\* `s?.user ?? null`
UserOrNull(s) == IF OptUser(s) \in {UndefinedUser, NoUser} THEN NoUser ELSE OptUser(s)

\* A variant of ProvisionCalls whose TOKEN_REFRESHED case falls into SIGNED_IN's.
ProvisionCallsFallThrough(event, newSession) ==
    IF event \in {"SIGNED_IN", "TOKEN_REFRESHED"}
       /\ OptUser(newSession) \notin {UndefinedUser, NoUser}
    THEN <<[id |-> newSession.user.id, created_at |-> newSession.user.created_at]>>
    ELSE <<>>

\* The provisioning calls the callback makes for one notification (lines 68-74):
\* checkAndInstallSunaAgent(newSession.user.id, newSession.user.created_at).
ProvisionCalls(event, newSession) ==
    IF event = "SIGNED_IN" /\ OptUser(newSession) \notin {UndefinedUser, NoUser}
    THEN <<[id |-> newSession.user.id, created_at |-> newSession.user.created_at]>>
    ELSE <<>>

\* No notification has been delivered to the callback yet.
NotNotified == [kind |-> "none"]

AuthInit ==
    /\ session = NoSession
    /\ user = NoUser
    /\ isLoading = TRUE
    /\ lifecycle = "created"
    /\ closureIsLoading = TRUE
    /\ initPc = "idle"
    /\ getSessionCalls = 0
    /\ signOutPc = "idle"
    /\ signOutCalled = FALSE
    /\ lastNotified = NotNotified
    /\ authStep = [kind |-> "none"]

\* The effect runs after the first render (lines 31-51): getInitialSession is
\* called and suspends at its await, and the callback is subscribed.
Mount ==
    /\ lifecycle = "created"
    /\ lifecycle' = "mounted"
    /\ initPc' = "getSession"
    /\ getSessionCalls' = getSessionCalls + 1
    /\ closureIsLoading' = isLoading
    /\ authStep' = [kind |-> "mount"]
    /\ UNCHANGED <<session, user, isLoading, signOutPc, signOutCalled, lastNotified>>

\* A variant of InitialPair that sets the session and leaves the user.
InitialPairSessionOnly(outcome, heldSession, heldUser) ==
    IF outcome.kind = "ok"
    THEN <<outcome.session, heldUser>>
    ELSE <<heldSession, heldUser>>

\* The held pair after getInitialSession's await settled (lines 35-42).
InitialPair(outcome, heldSession, heldUser) ==
    IF outcome.kind = "ok"
    THEN <<outcome.session, UserOrNull(outcome.session)>>
    ELSE <<heldSession, heldUser>>

\* A variant of LoadingAfterInitial that clears the flag in the try block only.
LoadingClearedOnSuccessOnly(outcome, loadingNow) ==
    IF outcome.kind = "ok" THEN FALSE ELSE loadingNow

\* isLoading after getInitialSession's finally block (lines 43-46).
LoadingAfterInitial(outcome, loadingNow) == FALSE

\* The await of getSession settles and getInitialSession runs to its end
\* (lines 35-46). Nothing cancels it: it also runs after teardown.
GetInitialSessionResume ==
    /\ initPc = "getSession"
    /\ \E outcome \in GetSessionOutcomes :
          /\ session' = InitialPair(outcome, session, user)[1]
          /\ user' = InitialPair(outcome, session, user)[2]
          /\ isLoading' = LoadingAfterInitial(outcome, isLoading)
          /\ authStep' = [kind |-> "getSession", outcome |-> outcome]
    /\ initPc' = "done"
    /\ UNCHANGED <<lifecycle, closureIsLoading, getSessionCalls, signOutPc, signOutCalled,
                   lastNotified>>

\* A variant of NotifiedPair without the `?? null`.
NotifiedPairWithoutDefault(newSession) == <<newSession, OptUser(newSession)>>

\* The held pair after the callback's two setters (lines 60-61).
NotifiedPair(newSession) == <<newSession, UserOrNull(newSession)>>

\* The auth client delivers a notification to the subscribed callback (lines 52-87).
AuthStateChange ==
    /\ lifecycle = "mounted"
    /\ \E event \in Events, newSession \in MaybeSessions :
          /\ session' = NotifiedPair(newSession)[1]
          /\ user' = NotifiedPair(newSession)[2]
          /\ isLoading' = IF closureIsLoading THEN FALSE ELSE isLoading
          /\ lastNotified' = newSession
          /\ authStep' = [kind |-> "notification", event |-> event,
                          newSession |-> newSession,
                          provisioned |-> ProvisionCalls(event, newSession)]
    /\ UNCHANGED <<lifecycle, closureIsLoading, initPc, getSessionCalls, signOutPc,
                   signOutCalled>>

\* signOut() is called and suspends at `await supabase.auth.signOut()` (lines 95-98).
SignOutCall ==
    /\ lifecycle = "mounted"
    /\ signOutPc = "idle"
    /\ signOutPc' = "signOut"
    /\ signOutCalled' = TRUE
    /\ authStep' = [kind |-> "signOut"]
    /\ UNCHANGED <<session, user, isLoading, lifecycle, closureIsLoading, initPc,
                   getSessionCalls, lastNotified>>

\* A variant of HeldAfterSignOut that clears the pair when the client's
\* signOut resolved.
HeldClearedOnSignOut(ok, held) == IF ok THEN <<NoSession, NoUser, held[3]>> ELSE held

\* session, user and isLoading after signOut's await settled (lines 98-102):
\* the rejection is logged, the resolution is followed by a comment only.
HeldAfterSignOut(ok, held) == held

\* The client's signOut settles, resolved or rejected (lines 98-102).
SignOutResume ==
    /\ signOutPc = "signOut"
    /\ \E ok \in BOOLEAN :
          /\ session' = HeldAfterSignOut(ok, <<session, user, isLoading>>)[1]
          /\ user' = HeldAfterSignOut(ok, <<session, user, isLoading>>)[2]
          /\ isLoading' = HeldAfterSignOut(ok, <<session, user, isLoading>>)[3]
          /\ authStep' = [kind |-> "signOutSettled", ok |-> ok]
    /\ signOutPc' = "idle"
    /\ UNCHANGED <<lifecycle, closureIsLoading, initPc, getSessionCalls, signOutCalled,
                   lastNotified>>

\* The effect's cleanup (lines 90-92): the callback is unsubscribed.
Unmount ==
    /\ lifecycle = "mounted"
    /\ lifecycle' = "unmounted"
    /\ authStep' = [kind |-> "unmount"]
    /\ UNCHANGED <<session, user, isLoading, closureIsLoading, initPc, getSessionCalls,
                   signOutPc, signOutCalled, lastNotified>>

(***************************************************************************)
(* OllamaModelManager                                                      *)
(***************************************************************************)
\* The calls the model lets be in flight at once.
MaxInFlight == 2

Model(name, size) == [name |-> name, size |-> size]

\* The lists the listing endpoint answers with.
ModelLists ==
    {<<>>,
     <<Model("llama3.2", 1536)>>,
     <<Model("llama3.2", 1536), Model("mistral", 1048576)>>}

\* The texts the user leaves in the name input.
TypedTexts == {"", "  ", " mistral "}

\* String.prototype.trim on the texts of the model.
Trim(text) ==
    CASE text = ""          -> ""
      [] text = "  "        -> ""
      [] text = " mistral " -> "mistral"
      [] OTHER              -> text

\* `ollama/${modelName}`
ModelId(modelName) == <<"ollama/", modelName>>

StatusPayload(accessible) ==
    [status |-> IF accessible THEN "running" ELSE "stopped",
     accessible |-> accessible, base_url |-> "http://localhost:11434"]

NoStatus == [kind |-> "null"]
NoOutcome == [kind |-> "none"]

\* How a fetch of the status endpoint ends: a success response with its
\* payload, a non-success response, or a rejection (of fetch or of json()).
StatusOutcomes ==
    {[kind |-> "ok", payload |-> StatusPayload(a)] : a \in BOOLEAN}
        \cup {[kind |-> "notok"], [kind |-> "error"]}

\* How a fetch of the listing endpoint ends.
ListingOutcomes ==
    {[kind |-> "ok", list |-> l] : l \in ModelLists}
        \cup {[kind |-> "notok"], [kind |-> "error"]}

\* How the POST of a pull or the DELETE of a delete ends.
MutateOutcomes == {[kind |-> "ok"], [kind |-> "notok"], [kind |-> "error"]}

StatusEndpoint  == "GET /api/ollama/status"
ListingEndpoint == "GET /api/ollama/models"
PullEndpoint    == "POST /api/ollama/models/pull"
DeleteEndpoint  == "DELETE /api/ollama/models/delete"

NoCall == [op |-> "none"]

\* What a step of the panel did: the request it issued ("none" when it issued
\* none), the call that ran to its end in it, the onModelAdded calls it made.
Step(issued, done, added) == [issued |-> issued, done |-> done, added |-> added]

\* An async call suspended at the await of a request: op is the function called
\* by the user's event, name its argument, notify whether the render it was
\* called in had an onModelAdded prop, pc the request it awaits ("mutate": its
\* POST or DELETE; "status", "listing": the requests of the fetchModels it runs).
\* The rest is what the call has seen and done so far: how its POST or DELETE,
\* its status request and its listing request ended, the fetchModels runs it
\* entered, the listing requests it issued, and whether a refresh that was
\* started after it has ended before it (overtaken).
Call(op, name, notify, pc) ==
    [op |-> op, name |-> name, notify |-> notify, pc |-> pc, mutate |-> NoOutcome,
     status |-> NoOutcome, listing |-> NoOutcome, refreshes |-> 0, listings |-> 0,
     overtaken |-> FALSE]

RemoveAt(seq, i) == SubSeq(seq, 1, i - 1) \o SubSeq(seq, i + 1, Len(seq))

\* The calls in flight after the refresh of call i has ended: the fetchModels
\* calls started before it (calls is in the order of the user's events, and a
\* fetchModels call is a refresh from its start) are overtaken.
RefreshEndedAt(seq, i) ==
    RemoveAt([j \in DOMAIN seq |->
                 IF j < i /\ seq[j].op = "fetchModels"
                 THEN [seq[j] EXCEPT !.overtaken = TRUE] ELSE seq[j]], i)

PanelInit ==
    /\ models = <<>>
    /\ serverStatus = NoStatus
    /\ loading = FALSE
    /\ isOpen = FALSE
    /\ newModelName = ""
    /\ pullingModel = Null
    /\ deletingModel = Null
    /\ calls = <<>>
    /\ panelStep = Step("none", NoCall, <<>>)

\* fetchModels up to its first await (lines 193-195, 180): the call c, which
\* runs fetchModels, issues the status request.
EnterFetchModels(c) ==
    [c EXCEPT !.pc = "status", !.refreshes = @ + 1]

\* A variant of ResponseOk that takes every settled request for a success.
ResponseOkAlways(outcome) == TRUE

\* `response.ok` of a settled fetch; a rejected fetch has no response and
\* takes the catch clause instead (lines 228, 239, 257, 264).
ResponseOk(outcome) == outcome.kind = "ok"

\* A variant of Accessible that returns true for every success response.
AccessibleWhenOk(outcome) == outcome.kind = "ok"

\* fetchServerStatus's return value (lines 181-189).
Accessible(outcome) == outcome.kind = "ok" /\ outcome.payload.accessible

\* serverStatus after fetchServerStatus (line 183).
StatusAfter(outcome, held) == IF outcome.kind = "ok" THEN outcome.payload ELSE held

\* A variant of ModelsAfterListing that adds the returned list to the held one.
ModelsMergedWithListing(outcome, held) ==
    IF outcome.kind = "ok" THEN held \o outcome.list ELSE <<>>

\* A variant of ModelsAfterListing in which a displayed list is kept: the
\* first refresh to bring a list wins.
ModelsKeptOnceListed(outcome, held) ==
    IF held # <<>> THEN held ELSE IF outcome.kind = "ok" THEN outcome.list ELSE <<>>

\* models after the listing request settled (lines 202-211).
ModelsAfterListing(outcome, held) == IF outcome.kind = "ok" THEN outcome.list ELSE <<>>

\* A variant of PullingAfterPull that clears the marker after the refresh only.
PullingClearedAfterRefreshOnly(refreshed, held) == IF refreshed THEN Null ELSE held

\* pullingModel after pullModel's finally block (lines 241-243); refreshed tells
\* whether the POST succeeded and the refresh was run.
PullingAfterPull(refreshed, held) == Null

\* deletingModel after deleteModel's finally block (lines 266-268).
DeletingAfterDelete(refreshed, held) == Null

\* A variant of AddedAfterRefresh that calls onModelAdded a second time.
AddedTwice(c) ==
    IF c.op = "pullModel" /\ c.notify THEN <<ModelId(c.name), ModelId(c.name)>> ELSE <<>>

\* The onModelAdded calls of a pull whose refresh has ended (lines 232-234).
AddedAfterRefresh(c) ==
    IF c.op = "pullModel" /\ c.notify THEN <<ModelId(c.name)>> ELSE <<>>

\* The call c ends: the code after its fetchModels, if it ran one, and its
\* finally block (lines 231-243, 260-268).
EndCall(c, refreshed) ==
    /\ pullingModel' = IF c.op = "pullModel"
                       THEN PullingAfterPull(refreshed, pullingModel) ELSE pullingModel
    /\ deletingModel' = IF c.op = "deleteModel"
                        THEN DeletingAfterDelete(refreshed, deletingModel)
                        ELSE deletingModel
    /\ panelStep' = Step("none", c, IF refreshed THEN AddedAfterRefresh(c) ELSE <<>>)

\* The dialog opens (line 292) and the effect calls fetchModels (lines 285-289).
Open ==
    /\ ~isOpen
    /\ Len(calls) < MaxInFlight
    /\ isOpen' = TRUE
    /\ loading' = TRUE
    /\ calls' = Append(calls, EnterFetchModels(Call("fetchModels", "", FALSE, "status")))
    /\ panelStep' = Step(StatusEndpoint, NoCall, <<>>)
    /\ UNCHANGED <<models, serverStatus, newModelName, pullingModel, deletingModel>>

\* The dialog closes (line 292); the effect runs and does nothing.
Close ==
    /\ isOpen
    /\ isOpen' = FALSE
    /\ panelStep' = Step("none", NoCall, <<>>)
    /\ UNCHANGED <<models, serverStatus, loading, newModelName, pullingModel,
                   deletingModel, calls>>

\* The Refresh button, disabled while loading (lines 394-403).
Refresh ==
    /\ isOpen
    /\ ~loading
    /\ Len(calls) < MaxInFlight
    /\ loading' = TRUE
    /\ calls' = Append(calls, EnterFetchModels(Call("fetchModels", "", FALSE, "status")))
    /\ panelStep' = Step(StatusEndpoint, NoCall, <<>>)
    /\ UNCHANGED <<models, serverStatus, isOpen, newModelName, pullingModel,
                   deletingModel>>

\* The name input changes (line 359).
TypeName ==
    /\ isOpen
    /\ \E text \in TypedTexts :
          /\ text # newModelName
          /\ newModelName' = text
    /\ panelStep' = Step("none", NoCall, <<>>)
    /\ UNCHANGED <<models, serverStatus, loading, isOpen, pullingModel, deletingModel,
                   calls>>

\* pullModel up to its await (lines 218-226), and the input cleared by the
\* handler that called it (lines 363, 372).
StartPull(modelName) ==
    /\ Len(calls) < MaxInFlight
    /\ pullingModel' = Str(modelName)
    /\ \E notify \in BOOLEAN :
          calls' = Append(calls, Call("pullModel", modelName, notify, "mutate"))
    /\ newModelName' = ""
    /\ panelStep' = Step(PullEndpoint, NoCall, <<>>)
    /\ UNCHANGED <<models, serverStatus, loading, isOpen, deletingModel>>

\* The Pull button, disabled while the name is blank or a pull is marked
\* (lines 368-375).
PullClick ==
    /\ isOpen
    /\ Trim(newModelName) # ""
    /\ pullingModel = Null
    /\ StartPull(Trim(newModelName))

\* Enter in the name input (lines 360-365).
PullEnter ==
    /\ isOpen
    /\ Trim(newModelName) # ""
    /\ StartPull(Trim(newModelName))

\* The Delete button of a listed model (lines 447-460); the list is rendered
\* when the panel is not loading (lines 408-421).
DeleteClick ==
    /\ isOpen
    /\ ~loading
    /\ Len(calls) < MaxInFlight
    /\ \E m \in DOMAIN models :
          /\ deletingModel # Str(models[m].name)
          /\ deletingModel' = Str(models[m].name)
          /\ calls' = Append(calls, Call("deleteModel", models[m].name, FALSE, "mutate"))
    /\ panelStep' = Step(DeleteEndpoint, NoCall, <<>>)
    /\ UNCHANGED <<models, serverStatus, loading, isOpen, newModelName, pullingModel>>

\* The POST of a pull or the DELETE of a delete settles (lines 228-243, 257-268):
\* on a success response the call enters fetchModels, otherwise it ends.
MutateSettles ==
    \E i \in DOMAIN calls, outcome \in MutateOutcomes :
       /\ calls[i].pc = "mutate"
       /\ IF ResponseOk(outcome)
          THEN /\ loading' = TRUE
               /\ calls' = [calls EXCEPT
                              ![i] = EnterFetchModels([@ EXCEPT !.mutate = outcome])]
               /\ panelStep' = Step(StatusEndpoint, NoCall, <<>>)
               /\ UNCHANGED <<pullingModel, deletingModel>>
          ELSE /\ calls' = RemoveAt(calls, i)
               /\ EndCall([calls[i] EXCEPT !.mutate = outcome], FALSE)
               /\ UNCHANGED loading
       /\ UNCHANGED <<models, serverStatus, isOpen, newModelName>>

\* The status request of a fetchModels settles (lines 181-201, 212-214): the
\* listing request is issued when the server is accessible, otherwise the list
\* is cleared and fetchModels, and with it the call, ends.
StatusSettles ==
    \E i \in DOMAIN calls, outcome \in StatusOutcomes :
       /\ calls[i].pc = "status"
       /\ serverStatus' = StatusAfter(outcome, serverStatus)
       /\ IF Accessible(outcome)
          THEN /\ calls' = [calls EXCEPT ![i] = [@ EXCEPT !.pc = "listing",
                                                          !.listings = @ + 1,
                                                          !.status = outcome]]
               /\ panelStep' = Step(ListingEndpoint, NoCall, <<>>)
               /\ UNCHANGED <<models, loading, pullingModel, deletingModel>>
          ELSE /\ models' = <<>>
               /\ loading' = FALSE
               /\ calls' = RefreshEndedAt(calls, i)
               /\ EndCall([calls[i] EXCEPT !.status = outcome], TRUE)
       /\ UNCHANGED <<isOpen, newModelName>>

\* The listing request of a fetchModels settles (lines 202-214) and the call ends.
ListingSettles ==
    \E i \in DOMAIN calls, outcome \in ListingOutcomes :
       /\ calls[i].pc = "listing"
       /\ models' = ModelsAfterListing(outcome, models)
       /\ loading' = FALSE
       /\ calls' = RefreshEndedAt(calls, i)
       /\ EndCall([calls[i] EXCEPT !.listing = outcome], TRUE)
       /\ UNCHANGED <<serverStatus, isOpen, newModelName>>

(***************************************************************************)
(* formatFileSize (OllamaModelManager, lines 271-277)                      *)
(*                                                                         *)
(* A byte count is held as its base-1024 digits, least significant first   *)
(* and without leading zeros (0 is the empty sequence), so that counts of  *)
(* a terabyte and more stay within the integers of the checker.            *)
(***************************************************************************)
\* `const k = 1024`
k == 1024

\* `const sizes = ['B', 'KB', 'MB', 'GB']`, indexed from 0.
sizes == <<"B", "KB", "MB", "GB">>

\* The longest byte counts of the model, in digits.
MaxDigits == 5

\* The digits the byte counts of the model are made of.
DigitValues == {0, 1, 512, 1023}

ByteSizes ==
    {b \in UNION {[1..n -> DigitValues] : n \in 0..MaxDigits} :
        b = <<>> \/ b[Len(b)] # 0}

\* `sizes[i]`: an index past the end of the array reads undefined.
SizesAt(i) == IF i + 1 \in DOMAIN sizes THEN Str(sizes[i + 1]) ELSE Undefined

\* The byte counts from k^5 - 3 to k^5 - 1: the quotient of their logarithms
\* rounds to the double 5, and up to there no other quotient rounds to an integer.
RoundsToNextPower(b) ==
    Len(b) = 5 /\ b[1] >= k - 3 /\ \A j \in 2..5 : b[j] = k - 1

\* Math.floor(Math.log(bytes) / Math.log(k)) for bytes > 0: the position of
\* the leading base-k digit, but for the counts whose quotient rounds up.
FloorLogK(b) == IF RoundsToNextPower(b) THEN Len(b) ELSE Len(b) - 1

\* 100 * bytes in base k: the carry out of its j low digits and its j-th digit.
RECURSIVE Carry100(_, _)
Carry100(b, j) == IF j = 0 THEN 0 ELSE (100 * b[j] + Carry100(b, j - 1)) \div k
Digit100(b, j) == (100 * b[j] + Carry100(b, j - 1)) % k

\* The digits of 100 * bytes from the j-th on, as a number.
RECURSIVE High100(_, _)
High100(b, j) ==
    IF j > Len(b) THEN Carry100(b, Len(b)) ELSE Digit100(b, j) + k * High100(b, j + 1)

\* (bytes / Math.pow(k, i)).toFixed(2), in hundredths: 100 * bytes / k^i rounded
\* to the nearest integer, a tie going up (the quotient is an exact double, and
\* its fraction is a half or more when the leading dropped digit is k/2 or more).
ToFixed2(b, i) ==
    High100(b, i + 1) + (IF i >= 1 /\ Digit100(b, i) >= k \div 2 THEN 1 ELSE 0)

\* The returned string `parseFloat(...) + ' ' + sizes[i]`: the number, in
\* hundredths, and the unit that follows the blank.
SizeString(hundredths, unit) == [number |-> hundredths, unit |-> unit]

formatFileSize(b) ==
    IF b = <<>> THEN SizeString(0, Str("B"))
    ELSE LET i == FloorLogK(b)
         IN  SizeString(ToFixed2(b, i), SizesAt(i))

NotFormatted == [number |-> 0, unit |-> Null]

FormatInit ==
    /\ bytes = <<>>
    /\ formatted = NotFormatted

\* formatFileSize is called on the size of a listed model (line 438).
FormatCall ==
    \E b \in ByteSizes :
       /\ bytes' = b
       /\ formatted' = formatFileSize(b)

(***************************************************************************)
(* Specifications: one per piece, the other pieces at rest.                *)
(***************************************************************************)
Init == FlagInit /\ AuthInit /\ PanelInit /\ FormatInit

NextFlag ==
    \/ DecideCall /\ UNCHANGED <<authVars, panelVars, formatVars>>
    \/ DecideResume /\ UNCHANGED <<authVars, panelVars, formatVars>>

SpecFlag == Init /\ [][NextFlag]_vars

NextAuth ==
    \/ Mount /\ UNCHANGED <<flagVars, panelVars, formatVars>>
    \/ GetInitialSessionResume /\ UNCHANGED <<flagVars, panelVars, formatVars>>
    \/ AuthStateChange /\ UNCHANGED <<flagVars, panelVars, formatVars>>
    \/ SignOutCall /\ UNCHANGED <<flagVars, panelVars, formatVars>>
    \/ SignOutResume /\ UNCHANGED <<flagVars, panelVars, formatVars>>
    \/ Unmount /\ UNCHANGED <<flagVars, panelVars, formatVars>>

SpecAuth == Init /\ [][NextAuth]_vars

NextPanel ==
    \/ Open /\ UNCHANGED <<flagVars, authVars, formatVars>>
    \/ Close /\ UNCHANGED <<flagVars, authVars, formatVars>>
    \/ Refresh /\ UNCHANGED <<flagVars, authVars, formatVars>>
    \/ TypeName /\ UNCHANGED <<flagVars, authVars, formatVars>>
    \/ PullClick /\ UNCHANGED <<flagVars, authVars, formatVars>>
    \/ PullEnter /\ UNCHANGED <<flagVars, authVars, formatVars>>
    \/ DeleteClick /\ UNCHANGED <<flagVars, authVars, formatVars>>
    \/ MutateSettles /\ UNCHANGED <<flagVars, authVars, formatVars>>
    \/ StatusSettles /\ UNCHANGED <<flagVars, authVars, formatVars>>
    \/ ListingSettles /\ UNCHANGED <<flagVars, authVars, formatVars>>

SpecPanel == Init /\ [][NextPanel]_vars

NextFormat ==
    \/ FormatCall /\ UNCHANGED <<flagVars, authVars, panelVars>>

SpecFormat == Init /\ [][NextFormat]_vars

(***************************************************************************)
(* Properties of the model manager panel (SpecPanel).                      *)
(***************************************************************************)
\* The call that ended in the last step of the panel, NoCall if none did.
EndedCall == panelStep.done

\* A status fetch that reports the server unreachable: accessible=false, a
\* non-success response, a transport failure.
ReportsUnreachable(outcome) ==
    \/ outcome.kind \in {"notok", "error"}
    \/ outcome.kind = "ok" /\ outcome.payload.accessible = FALSE

\* C1: a refresh whose status fetch reports the server unreachable ends with an
\* empty displayed list, and has not invoked the listing endpoint.
C1_UnreachableClearsAndSkipsListing ==
    (EndedCall # NoCall /\ EndedCall.refreshes > 0 /\ ReportsUnreachable(EndedCall.status))
        => /\ models = <<>>
           /\ EndedCall.listings = 0
           /\ EndedCall.listing = NoOutcome
           /\ panelStep.issued # ListingEndpoint

C1_Witness ==
    /\ EndedCall # NoCall
    /\ EndedCall.op = "fetchModels"
    /\ EndedCall.status.kind = "ok"
    /\ ReportsUnreachable(EndedCall.status)
    /\ serverStatus = StatusPayload(FALSE)
    /\ models = <<>>

\* C2: no request is issued while the panel is closed: a step that issues a
\* request (status, listing, pull or delete) leaves a state in which isOpen holds.
C2_NoRequestWhileClosed == panelStep.issued # "none" => isOpen

\* C3: a pull that ends leaves pullingModel null, whether its POST failed or its
\* POST succeeded and its refresh went one way or the other.
C3_PullClearsMarker ==
    (EndedCall # NoCall /\ EndedCall.op = "pullModel") => pullingModel = Null

C3_Witness ==
    /\ EndedCall # NoCall
    /\ EndedCall.op = "pullModel"
    /\ EndedCall.mutate.kind = "ok"
    /\ EndedCall.listing.kind = "error"
    /\ pullingModel = Null

\* C4 as claimed: a delete whose DELETE returned success has invoked the listing
\* endpoint exactly once when it ends, and a delete whose DELETE failed never.
C4_DeleteInvokesListingOnce ==
    (EndedCall # NoCall /\ EndedCall.op = "deleteModel")
        => EndedCall.listings = IF EndedCall.mutate.kind = "ok" THEN 1 ELSE 0

\* C4 as amended: a delete whose DELETE returned success has run exactly one
\* refresh (fetchModels) when it ends, and that refresh has invoked the listing
\* endpoint once if its status fetch reported the server accessible and not at
\* all otherwise; a delete whose DELETE failed has run no refresh and invoked
\* the listing endpoint not at all.
C4_DeleteRefreshesOnce ==
    (EndedCall # NoCall /\ EndedCall.op = "deleteModel")
        => IF EndedCall.mutate.kind = "ok"
           THEN /\ EndedCall.refreshes = 1
                /\ EndedCall.listings =
                      IF ReportsUnreachable(EndedCall.status) THEN 0 ELSE 1
           ELSE /\ EndedCall.refreshes = 0
                /\ EndedCall.listings = 0

C4_Witness ==
    /\ EndedCall # NoCall
    /\ EndedCall.op = "deleteModel"
    /\ EndedCall.mutate.kind = "ok"
    /\ EndedCall.refreshes = 1
    /\ EndedCall.listings = 1
    /\ EndedCall.listing.kind = "ok"

(***************************************************************************)
(* Properties of the session context (SpecAuth).                           *)
(***************************************************************************)
\* The last step of the provider applied a notification.
Notified == authStep.kind = "notification"

\* A session that carries a user.
CarriesUser(s) == s # NoSession /\ s.user.kind = "user"

\* C5 as claimed: every SIGNED_IN notification makes exactly one provisioning
\* call, with the id and creation timestamp of its session's user, and a
\* notification of another type makes none.
C5_SignedInProvisionsOnce ==
    Notified =>
        IF authStep.event = "SIGNED_IN"
        THEN /\ Len(authStep.provisioned) = 1
             /\ authStep.provisioned[1].id = authStep.newSession.user.id
             /\ authStep.provisioned[1].created_at = authStep.newSession.user.created_at
        ELSE authStep.provisioned = <<>>

\* C5 as amended: every SIGNED_IN notification whose session carries a user
\* makes exactly one provisioning call, with that user's id and creation
\* timestamp; a SIGNED_IN notification with no session or no user in it, and a
\* notification of any other type, makes none.
C5_SignedInWithUserProvisionsOnce ==
    Notified =>
        IF authStep.event = "SIGNED_IN" /\ CarriesUser(authStep.newSession)
        THEN /\ Len(authStep.provisioned) = 1
             /\ authStep.provisioned[1].id = authStep.newSession.user.id
             /\ authStep.provisioned[1].created_at = authStep.newSession.user.created_at
        ELSE authStep.provisioned = <<>>

C5_Witness ==
    /\ Notified
    /\ authStep.event = "SIGNED_IN"
    /\ authStep.newSession = SessionOf(User("u2", "2025-02-02T00:00:00Z"))
    /\ authStep.provisioned = <<[id |-> "u2", created_at |-> "2025-02-02T00:00:00Z"]>>
    /\ user = User("u2", "2025-02-02T00:00:00Z")

\* C6: once signOut has been called, a SIGNED_OUT notification that carries no
\* session leaves the held session and the held user null and makes no
\* provisioning call.
C6_SignedOutClearsPair ==
    (signOutCalled /\ Notified /\ authStep.event = "SIGNED_OUT"
        /\ authStep.newSession = NoSession)
        => /\ session = NoSession
           /\ user = NoUser
           /\ authStep.provisioned = <<>>

C6_Witness ==
    /\ signOutCalled
    /\ signOutPc = "idle"
    /\ Notified
    /\ authStep.event = "SIGNED_OUT"
    /\ authStep.newSession = NoSession
    /\ session = NoSession
    /\ user = NoUser

\* C7: the provider fetches the current session once; once that fetch has
\* settled the loading flag is false, whether the fetch resolved or rejected;
\* and a rejection leaves the held session and user as they were.
C7_InitialFetchClearsLoading ==
    /\ [](/\ getSessionCalls <= 1
          /\ lifecycle # "created" => getSessionCalls = 1
          /\ initPc = "done" => ~isLoading)
    /\ [][(initPc = "getSession" /\ initPc' = "done"
             /\ authStep'.outcome.kind = "reject")
            => (session' = session /\ user' = user)]_vars

C7_Witness ==
    /\ initPc = "done"
    /\ authStep.kind = "getSession"
    /\ authStep.outcome.kind = "reject"
    /\ getSessionCalls = 1
    /\ ~isLoading
    /\ session = NoSession
    /\ user = NoUser

(***************************************************************************)
(* Properties of the maintenance flag resolver (SpecFlag).                 *)
(***************************************************************************)
\* An evaluation that fetched the three values has completed.
DecidedOn == decidePc = "done" /\ fetched.kind = "ok"

\* The falsy values of JavaScript among the values of the enabled key.
FalsyValues == {Undefined, Null, Bool(FALSE), Num(0), Str("")}

\* The well-formed timestamps among the values of the time keys: the ISO 8601
\* strings and the number of milliseconds. The others are missing (undefined,
\* null) or malformed (strings that are no timestamps).
WellFormedTimes ==
    {Str("1970-01-01T00:00:01Z"), Str("1970-01-02T00:00:00.000Z"), Num(5000)}

MissingOrMalformed(x) == x \notin WellFormedTimes

\* C8: with a truthy enabled flag, a start time or end time that is missing or
\* malformed makes the resolver return the disabled variant.
C8_MalformedTimesDisable ==
    (/\ DecidedOn
     /\ fetched.flags.enabled \notin FalsyValues
     /\ (MissingOrMalformed(fetched.flags.start) \/ MissingOrMalformed(fetched.flags.end)))
        => completion = Return(Disabled)

\* C9: a falsy enabled flag makes the resolver return the disabled variant,
\* whatever the start and end times are.
C9_FalsyEnabledDisables ==
    (DecidedOn /\ fetched.flags.enabled \in FalsyValues) => completion = Return(Disabled)

C9_Witness ==
    /\ DecidedOn
    /\ fetched.flags.enabled = Undefined
    /\ fetched.flags.start = Str("1970-01-01T00:00:01Z")
    /\ fetched.flags.end = Str("1970-01-02T00:00:00.000Z")
    /\ completion = Return(Disabled)

\* The evaluation hit a failure: the fetch from the config store rejected, or
\* one of the two timestamps parsed to an Invalid Date.
FailedInside ==
    \/ fetched.kind = "reject"
    \/ /\ fetched.kind = "ok"
       /\ fetched.flags.enabled \notin FalsyValues
       /\ (NewDate(fetched.flags.start).nan \/ NewDate(fetched.flags.end).nan)

\* C10: an evaluation never completes by throwing, and one that hit a failure
\* of the config-store fetch or of the timestamp parsing returns disabled.
C10_NeverThrows ==
    decidePc = "done"
        => /\ completion.kind = "return"
           /\ FailedInside => completion.value = Disabled

C10_Witness ==
    /\ decidePc = "done"
    /\ fetched.kind = "reject"
    /\ completion = Return(Disabled)


\* The remote config source is not configured: EDGE_CONFIG is unset or empty.
NotConfigured == edgeConfig \in {Undefined, Str("")}

\* C11: an evaluation that read an unset or empty EDGE_CONFIG has returned the
\* disabled variant at once, without calling getAll.
C11_NotConfiguredSkipsFetch ==
    (decidePc # "idle" /\ NotConfigured)
        => /\ decidePc = "done"
           /\ completion = Return(Disabled)
           /\ getAllCalls = 0
           /\ fetched = NotFetched

C11_Witness ==
    /\ decidePc = "done"
    /\ edgeConfig = Str("")
    /\ completion = Return(Disabled)
    /\ getAllCalls = 0

(***************************************************************************)
(* Properties of formatFileSize (SpecFormat).                              *)
(***************************************************************************)
\* C12: the string returned for a byte count carries one of the units B, KB,
\* MB, GB; 0 gives '0 B', 1536 gives '1.5 KB' and 1048576 gives '1 MB'.
C12_UnitInRange ==
    formatted # NotFormatted
        => /\ formatted.unit \in {Str("B"), Str("KB"), Str("MB"), Str("GB")}
           /\ bytes = <<>> => formatted = SizeString(0, Str("B"))
           /\ bytes = <<512, 1>> => formatted = SizeString(150, Str("KB"))
           /\ bytes = <<0, 0, 1>> => formatted = SizeString(100, Str("MB"))


\* The pull that ran to its end in the last step, if one did.
EndedPull == panelStep.done.op = "pullModel"

\* What the last step shows of the pull that ended in it, and of onModelAdded.
PullOutcomeShown ==
    /\ (EndedPull /\ panelStep.done.mutate.kind = "ok")
          => /\ panelStep.done.refreshes = 1
             /\ panelStep.done.status # NoOutcome
             /\ panelStep.added = IF panelStep.done.notify
                                  THEN <<ModelId(panelStep.done.name)>>
                                  ELSE <<>>
    /\ (EndedPull /\ panelStep.done.mutate.kind # "ok")
          => /\ panelStep.done.refreshes = 0
             /\ panelStep.added = <<>>
    /\ ~EndedPull => panelStep.added = <<>>

\* C13: a pull of N whose POST succeeded has run the refresh once and, in the
\* step in which that refresh ends and whatever the refresh met, calls the
\* onModelAdded it was given exactly once with 'ollama/N'; a pull whose POST
\* failed or was rejected has run no refresh and called nothing, and the step
\* in which it ends leaves models as it was; no other step calls onModelAdded.
C13_PullRefreshesThenNotifies ==
    /\ []PullOutcomeShown
    /\ [][(panelStep'.done.op = "pullModel" /\ panelStep'.done.mutate.kind # "ok")
             => models' = models]_vars

\* A pull of mistral ended with its callback called although the listing
\* request of its refresh was rejected.
C13_Witness ==
    /\ EndedPull
    /\ panelStep.done.name = "mistral"
    /\ panelStep.done.mutate.kind = "ok"
    /\ panelStep.done.listing.kind = "error"
    /\ panelStep.added = <<ModelId("mistral")>>

\* A pull whose POST failed ended while a model list was displayed.
C13_WitnessFailed ==
    /\ EndedPull
    /\ panelStep.done.mutate.kind = "notok"
    /\ models # <<>>

\* session, user and isLoading, the state the provider holds.
Held == <<session, user, isLoading>>

\* C14: the step that calls signOut and the step in which the client's signOut
\* settles, resolved or rejected, leave session, user and isLoading as they
\* were; a step that changes the pair is a notification or the initial fetch.
C14_SignOutChangesNothing ==
    /\ [][authStep'.kind \in {"signOut", "signOutSettled"} => Held' = Held]_vars
    /\ [][<<session, user>>' # <<session, user>>
             => authStep'.kind \in {"notification", "getSession"}]_vars

\* The client's signOut was rejected while a session is held.
C14_Witness ==
    /\ authStep = [kind |-> "signOutSettled", ok |-> FALSE]
    /\ session # NoSession
    /\ user # NoUser

\* The client's signOut resolved and the session is still held.
C14_WitnessResolved ==
    /\ authStep = [kind |-> "signOutSettled", ok |-> TRUE]
    /\ session # NoSession

\* The status fetch of the call that ended in the last step met a non-success
\* response or a transport failure (the call ended with it: lines 195-199).
StatusFetchFailed ==
    /\ EndedCall # NoCall
    /\ EndedCall.refreshes > 0
    /\ EndedCall.status.kind \in {"notok", "error"}

\* C15: after a status fetch that met a non-success response or a transport
\* failure, serverStatus does not report accessible=true.
C15_FailedPollNotAccessible ==
    StatusFetchFailed => ~(serverStatus # NoStatus /\ serverStatus.accessible)

\* The listing request of the call that ended in the last step has settled,
\* and with it the refresh.
ListingFetched == EndedCall # NoCall /\ EndedCall.listing # NoOutcome

\* C16: when a refresh ends with its listing request settled, models is the
\* returned list if the response was a success and empty if it was a
\* non-success or the request was rejected, and loading is false.
C16_ListingReplacesOrClears ==
    ListingFetched
        => /\ models = IF EndedCall.listing.kind = "ok"
                       THEN EndedCall.listing.list ELSE <<>>
           /\ ~loading

\* The refresh after a delete, run while both models were listed, ended with a
\* listing of one model, which is what is displayed.
C16_Witness ==
    /\ ListingFetched
    /\ EndedCall.op = "deleteModel"
    /\ EndedCall.name = "mistral"
    /\ EndedCall.listing.kind = "ok"
    /\ Len(EndedCall.listing.list) = 1
    /\ Len(models) = 1

\* The listing request of the refresh after a delete was rejected.
C16_WitnessFailed ==
    /\ ListingFetched
    /\ EndedCall.op = "deleteModel"
    /\ EndedCall.listing.kind = "error"
    /\ models = <<>>

\* What a refresh that has ended sets models to (lines 196-211).
RefreshResult(c) == IF c.listing.kind = "ok" THEN c.listing.list ELSE <<>>

\* C17: models is what the refresh that ended last has set, however the
\* refreshes overlapped and in whatever order they were started: the step in
\* which a refresh ends leaves models at that refresh's result, and no other
\* step changes models.
C17_LastResolvedWins ==
    /\ []((EndedCall # NoCall /\ EndedCall.refreshes > 0)
            => models = RefreshResult(EndedCall))
    /\ [][models' # models
             => (panelStep'.done # NoCall /\ panelStep'.done.refreshes > 0)]_vars

\* Two refreshes overlapped and both have ended: the one started first ended
\* last, after the other had ended, and its list is displayed.
C17_Witness ==
    /\ calls = <<>>
    /\ EndedCall # NoCall
    /\ EndedCall.op = "fetchModels"
    /\ EndedCall.overtaken
    /\ EndedCall.listing.kind = "ok"
    /\ models = EndedCall.listing.list
    /\ Len(models) = 2

\* Two refreshes overlap: the one started last has ended first and its result
\* is displayed while the one started first is still in flight.
C17_WitnessOvertaking ==
    /\ Len(calls) = 1
    /\ calls[1].overtaken
    /\ EndedCall # NoCall
    /\ EndedCall.refreshes > 0
    /\ models = RefreshResult(EndedCall)

\* C18: once the callback has taken a notification, session is the newSession
\* of the last notification taken and user is its user (or null), in every
\* later state, also after the initial fetch has resolved.
C18_HeldMirrorsLastNotification ==
    lastNotified # NotNotified
        => /\ session = lastNotified
           /\ user = UserOrNull(lastNotified)

\* The POST of a pull is in flight.
PullRequestInFlight ==
    \E i \in DOMAIN calls : calls[i].op = "pullModel" /\ calls[i].pc = "mutate"

\* C19: while the POST of at least one pull is in flight, pullingModel is not
\* null, whether the pulls were started by the Pull button or by Enter.
C19_MarkerGuardsPulls == PullRequestInFlight => pullingModel # Null

\* C20: while the DELETE of a delete of model M is in flight, deletingModel is M.
C20_MarkerNamesDeletedModel ==
    \A i \in DOMAIN calls :
       (calls[i].op = "deleteModel" /\ calls[i].pc = "mutate")
           => deletingModel = Str(calls[i].name)

\* A run of fetchModels is suspended at its status or its listing request.
RefreshInFlight ==
    \E i \in DOMAIN calls : calls[i].pc \in {"status", "listing"}

\* C21: while a run of fetchModels is in flight, loading is true, also when
\* refreshes overlap.
C21_LoadingWhileRefreshing == RefreshInFlight => loading

\* The held session is null or carries no user.
SessionWithoutUser ==
    session = NoSession \/ session.user \in {UndefinedUser, NoUser}

\* C22: the held user is the user of the held session, and null exactly when
\* the held session is null or carries no user, after every sequence of
\* initial-fetch results and notifications.
C22_UserOfHeldSession ==
    /\ SessionWithoutUser <=> user = NoUser
    /\ ~SessionWithoutUser => user = session.user

\* The initial fetch resolved after a notification and replaced the pair of
\* one user by the pair of another.
C22_Witness ==
    /\ authStep.kind = "getSession"
    /\ lastNotified \in Sessions
    /\ lastNotified.user \in Users
    /\ ~SessionWithoutUser
    /\ session # lastNotified
    /\ user = session.user

\* A notification brought a session that carries no user.
C22_WitnessNoUser ==
    /\ authStep.kind = "notification"
    /\ session # NoSession
    /\ SessionWithoutUser
    /\ user = NoUser
=============================================================================
